---- MODULE Spec2Model ----
(***************************************************************************)
(* Verification model of the OctoBot governance core:                      *)
(*   - octobot.laws.validator   (rule catalog, enforce, guard, audit log)  *)
(*   - octobot.memory.utils     (path helpers, within_directory)           *)
(*   - octobot.core.orchestrator / proposal_manager / updater              *)
(*   - octobot.memory.ledger                                               *)
(*                                                                         *)
(* Python strings are sequences of one-character strings, so that          *)
(* str.lower(), str.endswith() and pathlib parsing are computed, not       *)
(* assumed.  Coverage values are integers in hundredths of a fraction      *)
(* (0.95 is 95, the percentage 95.0 stored as a fraction is 9500).         *)
(***************************************************************************)
EXTENDS Integers, Sequences, FiniteSets, TLC

(***************************************************************************)
(* String literals                                                         *)
(***************************************************************************)
S_approved == <<"a", "p", "p", "r", "o", "v", "e", "d">>

S_Approved == <<"A", "p", "p", "r", "o", "v", "e", "d">>

S_APPROVED == <<"A", "P", "P", "R", "O", "V", "E", "D">>

S_denied == <<"d", "e", "n", "i", "e", "d">>

S_tester == <<"t", "e", "s", "t", "e", "r">>

S_repo == <<"r", "e", "p", "o">>

S_proposals == <<"p", "r", "o", "p", "o", "s", "a", "l", "s">>

S_proposals_old == <<"p", "r", "o", "p", "o", "s", "a", "l", "s", "_", "o", "l", "d">>

S_ventures == <<"v", "e", "n", "t", "u", "r", "e", "s">>

S_docs == <<"d", "o", "c", "s">>

S_memory == <<"m", "e", "m", "o", "r", "y">>

S_etc == <<"e", "t", "c">>

S_link == <<"l", "i", "n", "k">>

S_x == <<"x">>

S_dot == <<".">>

S_dotdot == <<".", ".">>

S_p1 == <<"p", "1">>

S_p2 == <<"p", "2">>

S_proposal_yaml == <<"p", "r", "o", "p", "o", "s", "a", "l", ".", "y", "a", "m", "l">>

S_diff_patch == <<"d", "i", "f", "f", ".", "p", "a", "t", "c", "h">>

S_rationale_md == <<"r", "a", "t", "i", "o", "n", "a", "l", "e", ".", "m", "d">>

S_impact_json == <<"i", "m", "p", "a", "c", "t", ".", "j", "s", "o", "n">>

S_connector == <<"c", "o", "n", "n", "e", "c", "t", "o", "r", "s", "/", "u", "n", "r", "e", "a", "l", "_", "b", "r", "i", "d", "g", "e", ".", "p", "y">>

S_offline == <<"[", "o", "f", "f", "l", "i", "n", "e", "]">>

S_octobot == <<"o", "c", "t", "o", "b", "o", "t">>

S_connectors == <<"c", "o", "n", "n", "e", "c", "t", "o", "r", "s">>

S_fake_connectors == <<"f", "a", "k", "e", "_", "c", "o", "n", "n", "e", "c", "t", "o", "r", "s">>

S_unreal_bridge_py == <<"u", "n", "r", "e", "a", "l", "_", "b", "r", "i", "d", "g", "e", ".", "p", "y">>

(***************************************************************************)
(* str.lower() and str.endswith()                                          *)
(***************************************************************************)
LowerChar(c) ==
    CASE c = "A" -> "a"
      [] c = "P" -> "p"
      [] c = "R" -> "r"
      [] c = "O" -> "o"
      [] c = "V" -> "v"
      [] c = "E" -> "e"
      [] c = "D" -> "d"
      [] OTHER -> c

Lower(s) == [i \in DOMAIN s |-> LowerChar(s[i])]

EndsWith(s, suffix) ==
    /\ Len(s) >= Len(suffix)
    /\ SubSeq(s, Len(s) - Len(suffix) + 1, Len(s)) = suffix

(***************************************************************************)
(* pathlib: a path is [abs, parts]; parts are the segments between "/".    *)
(***************************************************************************)
\* str.split("/") without the empty segments, scanning from index i
RECURSIVE SplitFrom(_, _, _)
SplitFrom(s, i, start) ==
    LET seg == IF start < i THEN <<SubSeq(s, start, i - 1)>> ELSE <<>>
    IN  IF i > Len(s) THEN seg
        ELSE IF s[i] = "/" THEN seg \o SplitFrom(s, i + 1, i + 1)
        ELSE SplitFrom(s, i + 1, start)

\* Path(context): empty segments and "." segments are dropped, ".." is kept.
PathOf(s) ==
    [abs |-> (s # <<>> /\ Head(s) = "/"),
     parts |-> SelectSeq(SplitFrom(s, 1, 1), LAMBDA seg : seg # S_dot)]

\* path / child
Child(path, name) == [abs |-> path.abs, parts |-> Append(path.parts, name)]

RECURSIVE JoinParts(_)
JoinParts(parts) ==
    IF parts = <<>> THEN <<>>
    ELSE IF Len(parts) = 1 THEN Head(parts)
    ELSE Head(parts) \o <<"/">> \o JoinParts(Tail(parts))

\* str(path)
PathStr(path) ==
    IF path.abs THEN <<"/">> \o JoinParts(path.parts)
    ELSE IF path.parts = <<>> THEN S_dot ELSE JoinParts(path.parts)

(***************************************************************************)
(* The file system the process runs in: the repository root, and the       *)
(* symbolic links that exist on disk (link -> absolute target parts).      *)
(***************************************************************************)
RepoRoot == [abs |-> TRUE, parts |-> <<S_repo>>]

SymlinkAt == <<S_repo, S_docs, S_link>>

SymlinkTarget == <<S_etc>>

\* os.path.realpath over absolute parts: ".." pops, a symlink is followed.
RECURSIVE RealParts(_, _)
RealParts(todo, done) ==
    IF todo = <<>> THEN done
    ELSE IF Head(todo) = S_dotdot
         THEN RealParts(Tail(todo),
                        IF done = <<>> THEN done ELSE SubSeq(done, 1, Len(done) - 1))
         ELSE LET next == Append(done, Head(todo))
              IN  RealParts(Tail(todo), IF next = SymlinkAt THEN SymlinkTarget ELSE next)

\* Path.resolve(): relative paths are taken from the working directory.
Resolve(path, workdir) ==
    [abs |-> TRUE,
     parts |-> RealParts(IF path.abs THEN path.parts ELSE workdir.parts \o path.parts, <<>>)]

\* PurePath.relative_to succeeds iff the other path's parts are a prefix.
IsRelativeTo(path, other) ==
    /\ Len(path.parts) >= Len(other.parts)
    /\ SubSeq(path.parts, 1, Len(other.parts)) = other.parts

WithinDirectoryPrefixBug(path, directory, workdir) ==
    LET a == PathStr(Resolve(path, workdir))
        b == PathStr(Resolve(directory, workdir))
    IN  Len(a) >= Len(b) /\ SubSeq(a, 1, Len(b)) = b

within_directory(path, directory, workdir) ==
    IsRelativeTo(Resolve(path, workdir), Resolve(directory, workdir))

proposals_root == Child(RepoRoot, S_proposals)

AllowedRoots ==
    {proposals_root, Child(RepoRoot, S_ventures), Child(RepoRoot, S_docs),
     Child(RepoRoot, S_memory)}

_check_filesystem(context, workdir) ==
    LET target == PathOf(context)
    IN  \E directory \in AllowedRoots : within_directory(target, directory, workdir)

(***************************************************************************)
(* octobot.memory.ledger: the digest of a proposal directory.  A directory  *)
(* is a function from the relative path of each file to its content; the    *)
(* listing is the order in which rglob happens to return the files.         *)
(***************************************************************************)
\* the characters of file names, in code point order
Alphabet ==
    <<".", "_", "a", "b", "c", "d", "e", "f", "g", "h", "i", "j", "k", "l", "m", "n", "o",
      "p", "q", "r", "s", "t", "u", "v", "w", "x", "y", "z">>

CharRank(c) == CHOOSE i \in DOMAIN Alphabet : Alphabet[i] = c

\* a < b for two strings
LexLess(a, b) ==
    \E k \in 1..Len(b) :
       /\ k - 1 <= Len(a)
       /\ \A i \in 1..(k - 1) : a[i] = b[i]
       /\ (k > Len(a) \/ CharRank(a[k]) < CharRank(b[k]))

RECURSIVE SortedSet(_)
SortedSet(names) ==
    IF names = {} THEN <<>>
    ELSE LET least == CHOOSE x \in names : \A y \in names \ {x} : LexLess(x, y)
         IN  <<least>> \o SortedSet(names \ {least})

\* sorted(path.rglob("*"))
sorted(listing) == SortedSet({listing[i] : i \in DOMAIN listing})

\* the bytes fed to sha.update, file after file: relative path, then content
RECURSIVE HashInput(_, _)
HashInput(order, files) ==
    IF order = <<>> THEN <<>>
    ELSE Head(order) \o files[Head(order)] \o HashInput(Tail(order), files)

HashUnsorted(files, listing) == HashInput(listing, files)

\* Ledger._hash_proposal; SHA-256 is taken as collision free, so the digest is
\* represented by the byte string that was hashed
_hash_proposal(files, listing) == HashInput(sorted(listing), files)

\* some order in which the file system lists a set of files
RECURSIVE ListingOf(_)
ListingOf(names) ==
    IF names = {} THEN <<>>
    ELSE LET n == CHOOSE x \in names : TRUE IN <<n>> \o ListingOf(names \ {n})

(***************************************************************************)
(* Bounds                                                                   *)
(***************************************************************************)
MaxAudit == 2

MaxPathLen == 3

MaxCalls == 3

MaxAppends == 2

MaxEvents == 3

(***************************************************************************)
(* State                                                                    *)
(***************************************************************************)
VARIABLES
    rules,              \* validator._RULES: names of the rules in the catalog
    registeredAgents,   \* validator._REGISTERED_AGENTS
    audit,              \* lines of memory/audit.log
    cwd,                \* working directory of the process
    lawPc,              \* position inside enforce(): idle, audit, finish
    lawCall,            \* the enforce() call in progress
    lawResult,          \* outcome of the last finished policy call
    input,              \* the (rule, context) pair a pure check is run on
    status,             \* proposal id -> status in the store and in proposal.yaml
    coverage,           \* proposal id -> coverage in proposal.yaml
    artifacts,          \* proposal id -> files present in the proposal directory
    validationReports,  \* Orchestrator._validation_reports
    evaluationScores,   \* keys of Orchestrator._evaluation_scores
    appliedCommits,     \* Orchestrator._applied_commits
    proposers,          \* Orchestrator._proposers
    queue,              \* EventBus._queue
    inflight,           \* the event whose handler has started and not yet returned
    pc,                 \* idle, or the public call whose flush() is running
    lastReturn,         \* the public call in progress or last finished, and its result
    orchLog,            \* the last log_event of a handler or of flush()
    ledger,             \* lines of memory/ledger.json
    merged,             \* proposal id -> times its patch was applied and committed
    calls,              \* public calls made so far
    dirFiles,           \* the files of the proposal directory a Ledger hashes
    writerPc,           \* per process sharing the ledger file: position in Ledger.append
    writerEntry,        \* per process: the entry its append is writing
    readResult,         \* outcome of the last read of the ledger file as it is now
    hashed,             \* the _hash_proposal calls made so far: files, listing, digest
    busCurrent,         \* flush(): the event taken from the queue
    busPending,         \* flush(): the handlers still to be awaited for that event
    published,          \* the events published on the bus, in publication order
    dispatched,         \* the handler invocations made by flush(), in order
    evTasks,            \* events.EventBus: the tasks created by emit, not yet run
    evQueue,            \* events.EventBus.queue
    evInvoked,          \* events.EventBus: the handler invocations made by _safe_invoke
    urEnv,              \* unreal_bridge: _MAX_RETRIES and _TIMEOUT read from the environment
    urPc,               \* query_unreal: position of the call
    urPrompt,           \* query_unreal: the argument prompt
    urAttempt,          \* query_unreal: the loop variable attempt
    urClients,          \* the timeouts of the httpx.Client objects constructed
    urLog,              \* the lines log_connector_call appended
    urResult,           \* the text query_unreal returned
    fsFiles,            \* the files written on disk, by canonical path
    wrTodo,             \* package_proposal / generate: the targets still to be written
    wrResult,           \* outcome of the last package_proposal / generate
    sbTimeout,          \* SETTINGS.runtime.max_runtime_seconds
    sbChild,            \* the child process of subprocess.run
    sbRuns,             \* the outcomes of run_agent_subprocess, in order
    authKey,            \* the OCTOBOT_KEY environment variable
    authLog             \* the token checks made, in order

lawVars == <<rules, registeredAgents, audit, cwd, lawPc, lawCall, lawResult, input>>

orchVars ==
    <<status, coverage, artifacts, validationReports, evaluationScores, appliedCommits,
      proposers, queue, inflight, pc, lastReturn, orchLog, ledger, merged, calls>>

ledgerVars == <<dirFiles, writerPc, writerEntry, readResult, hashed>>

busVars == <<busCurrent, busPending, published, dispatched>>

evVars == <<evTasks, evQueue, evInvoked>>

urVars == <<urEnv, urPc, urPrompt, urAttempt, urClients, urLog, urResult>>

wrVars == <<fsFiles, wrTodo, wrResult>>

sbVars == <<sbTimeout, sbChild, sbRuns>>

authVars == <<authKey, authLog>>

svcVars == <<evVars, urVars, wrVars, sbVars, authVars>>

vars == <<lawVars, orchVars, ledgerVars, busVars, svcVars>>

(***************************************************************************)
(* octobot.laws.validator                                                   *)
(***************************************************************************)
LawRuleNames == {"external_request", "filesystem_write", "code_merge", "agent_entry"}

\* constitution.yaml of the repository (the rules the code and tests rely on)
RepoRules == LawRuleNames

\* catalogs a constitution.yaml can define
Catalogs ==
    {LawRuleNames \cup {"house_rule"}, LawRuleNames \ {"agent_entry"}, {"filesystem_write"}}

Agents == {S_tester}

NoCall == [rule |-> "", context |-> <<>>, status |-> ""]

NoResult == [op |-> "none", rule |-> "", context |-> <<>>, outcome |-> "none"]

NoInput == [rule |-> "", context |-> <<>>]

_is_allowed(rule, context, registered, workdir) ==
    CASE rule = "external_request" -> EndsWith(context, S_connector)
      [] rule = "filesystem_write" -> _check_filesystem(context, workdir)
      [] rule = "code_merge" -> Lower(context) = S_approved
      [] rule = "agent_entry" -> context \in registered
      [] OTHER -> TRUE

\* what enforce(rule_name, context) does to its caller: True or an exception
EnforceReturns(rule_name, context) ==
    /\ rule_name \in rules
    /\ _is_allowed(rule_name, context, registeredAgents, cwd)

\* enforce(), lines 138-142: catalog lookup and predicate evaluation
EnforceCall(rule_name, context) ==
    /\ lawPc = "idle"
    /\ IF rule_name \notin rules
       THEN /\ lawResult' = [op |-> "enforce", rule |-> rule_name, context |-> context,
                             outcome |-> "RuleViolationError"]
            /\ UNCHANGED <<lawPc, lawCall>>
       ELSE /\ Len(audit) < MaxAudit
            /\ lawCall' = [rule |-> rule_name, context |-> context,
                           status |-> IF _is_allowed(rule_name, context, registeredAgents, cwd)
                                      THEN "allowed" ELSE "blocked"]
            /\ lawPc' = "audit"
            /\ lawResult' = NoResult
    /\ UNCHANGED <<rules, registeredAgents, audit, cwd, input, orchVars, ledgerVars, busVars, svcVars>>

AuditRecord(call) == [rule |-> call.rule, status |-> call.status, context |-> call.context]

AuditOnlyAllowed(log, call) ==
    IF call.status = "allowed" THEN Append(log, AuditRecord(call)) ELSE log

_audit(log, call) == Append(log, AuditRecord(call))

\* enforce(), line 145: the decision is appended to the audit log
EnforceAudit ==
    /\ lawPc = "audit"
    /\ audit' = _audit(audit, lawCall)
    /\ lawPc' = "finish"
    /\ UNCHANGED <<rules, registeredAgents, cwd, lawCall, lawResult, input, orchVars, ledgerVars, busVars, svcVars>>

\* enforce(), lines 146-148: raise on a deny, return True otherwise
EnforceFinish ==
    /\ lawPc = "finish"
    /\ lawResult' = [op |-> "enforce", rule |-> lawCall.rule, context |-> lawCall.context,
                     outcome |-> IF lawCall.status = "allowed" THEN "True"
                                 ELSE "RuleViolationError"]
    /\ lawPc' = "idle"
    /\ lawCall' = NoCall
    /\ UNCHANGED <<rules, registeredAgents, audit, cwd, input, orchVars, ledgerVars, busVars, svcVars>>

register_agent(agent_name) ==
    /\ lawPc = "idle"
    /\ registeredAgents' = registeredAgents \cup {agent_name}
    /\ UNCHANGED <<rules, audit, cwd, lawPc, lawCall, lawResult, input, orchVars, ledgerVars, busVars, svcVars>>

\* require_agent(agent_name): "returns" or "RuleViolationError"
RequireAgentOutcome(agent_name) ==
    IF "agent_entry" \notin rules THEN "returns"
    ELSE IF agent_name \notin registeredAgents THEN "RuleViolationError"
    ELSE "returns"

\* a call of a function wrapped with guard(agent_name)
GuardedCall(agent_name) ==
    /\ lawPc = "idle"
    /\ lawResult' = [op |-> "guard", rule |-> "agent_entry", context |-> agent_name,
                     outcome |-> IF RequireAgentOutcome(agent_name) = "returns"
                                 THEN "body_ran" ELSE "RuleViolationError"]
    /\ UNCHANGED <<rules, registeredAgents, audit, cwd, lawPc, lawCall, input, orchVars, ledgerVars, busVars, svcVars>>


(***************************************************************************)
(* octobot.core: proposals, validation, event bus, orchestrator             *)
(***************************************************************************)
PIDs == {"p1", "p2"}

PidStr(p) == IF p = "p1" THEN S_p1 ELSE S_p2

Proposers == {"engineers"}

Approvers == {"alice", "mallory"}

\* coverage figures the analyzer can read from coverage.json (0.20, 0.89, 0.90, 0.95)
CoverageInputs == {20, 89, 90, 95}

\* quality_gates.min_coverage of tech_standards.yaml, in hundredths
MinCoverage == 90

\* the review gate of mark_ready_for_review and _handle_validated, in percent
ReviewGatePercent == 90

ArtifactFiles == {"proposal.yaml", "rationale.md", "diff.patch", "impact.json"}

FileStr(f) ==
    CASE f = "proposal.yaml" -> S_proposal_yaml
      [] f = "rationale.md" -> S_rationale_md
      [] f = "diff.patch" -> S_diff_patch
      [] f = "impact.json" -> S_impact_json

ProposalDir(p) == Child(proposals_root, PidStr(p))

NoReport == [compliant |-> FALSE, issues |-> <<>>, coverage |-> 0]

Event(name, p, proposer, approver, report) ==
    [name |-> name, proposal_id |-> p, proposer |-> proposer, approver |-> approver,
     report |-> report]

PublishLifo(q, event) == <<event>> \o q

\* EventBus.publish: the event is put at the tail of the queue
publish(q, event) == Append(q, event)

LogRecord(action, p) == [action |-> action, proposal_id |-> p]

\* the content of a file of the proposal directory: proposal.yaml carries the
\* status and the coverage, the other files stay as generate wrote them
FileContent(p, f) ==
    IF f = "proposal.yaml"
    THEN <<"status:", status[p], "coverage:", ToString(coverage[p])>>
    ELSE <<f>>

\* the files of the proposal directory, by relative path
DirOf(p) ==
    LET byName == [n \in {FileStr(f) : f \in artifacts[p]} |->
                      CHOOSE f \in artifacts[p] : FileStr(f) = n]
    IN  [n \in DOMAIN byName |-> FileContent(p, byName[n])]

LedgerEntry(p, proposer, st) ==
    [proposal_id |-> p, proposer |-> proposer, status |-> st,
     digest |-> _hash_proposal(DirOf(p), ListingOf(DOMAIN DirOf(p)))]

LedgerAppendTruncating(log, entry) == <<entry>>

\* Ledger.append, lines 46-47: the entry becomes the last line of the file
LedgerAppend(log, entry) == Append(log, entry)

\* dict.get(key) on a dict modelled as a function with a varying domain
Has(dict, key) == key \in DOMAIN dict

Put(dict, key, value) == (key :> value) @@ dict

\* ProposalManager.load: the record and its proposal.yaml exist
Loaded(p) == status[p] # "none" /\ "proposal.yaml" \in artifacts[p]

\* ProposalManager._update_metadata: written only if the proposal loads
WriteAllowed(p) ==
    EnforceReturns("filesystem_write", PathStr(Child(ProposalDir(p), S_proposal_yaml)))

ValidateNeverCompliant(p) ==
    [compliant |-> FALSE, issues |-> <<"static analysis issue">>,
     coverage |-> IF "proposal.yaml" \in artifacts[p] THEN coverage[p] ELSE 0]

\* validate_proposal: the issues in the order the checks run
validate_proposal(p) ==
    LET cov == IF "proposal.yaml" \in artifacts[p] THEN coverage[p] ELSE 0
        i1 == IF cov < MinCoverage THEN <<"coverage below threshold">> ELSE <<>>
        i2 == IF "proposal.yaml" \notin artifacts[p] THEN <<"proposal id mismatch">> ELSE <<>>
        i3 == IF "rationale.md" \notin artifacts[p] THEN <<"rationale.md is missing">> ELSE <<>>
        i4 == IF "diff.patch" \notin artifacts[p] THEN <<"diff.patch is missing">> ELSE <<>>
        i5 == IF "proposal.yaml" \notin artifacts[p] THEN <<"proposal summary is empty">> ELSE <<>>
        i6 == IF "impact.json" \notin artifacts[p] THEN <<"impact.json is missing">> ELSE <<>>
        issues == i1 \o i2 \o i3 \o i4 \o i5 \o i6
    IN  [compliant |-> (issues = <<>>), issues |-> issues, coverage |-> cov]

\* ProposalManager.generate enforces filesystem_write on every path it writes
GenerateAllowed(p) ==
    \A f \in ArtifactFiles :
       EnforceReturns("filesystem_write", PathStr(Child(ProposalDir(p), FileStr(f))))

\* async_draft_proposal up to its publish: scan_repo reads the coverage figure,
\* generate writes the proposal directory and upserts the record as a draft
DraftProposal(p, proposer) ==
    /\ pc = "idle"
    /\ calls < MaxCalls
    /\ GenerateAllowed(p)
    /\ \E cov \in CoverageInputs : coverage' = [coverage EXCEPT ![p] = cov]
    /\ status' = [status EXCEPT ![p] = "draft"]
    /\ artifacts' = [artifacts EXCEPT ![p] = ArtifactFiles]
    /\ proposers' = Put(proposers, p, proposer)
    /\ queue' = publish(queue, Event("proposal.created", p, proposer, "", NoReport))
    /\ pc' = "draft"
    /\ calls' = calls + 1
    /\ lastReturn' = [op |-> "draft_proposal", proposal_id |-> p, loaded |-> "draft",
                      value |-> "pending"]
    /\ UNCHANGED <<validationReports, evaluationScores, appliedCommits, inflight, orchLog,
                   ledger, merged, lawVars, ledgerVars, busVars, svcVars>>

ApproveSetsStatus(st, p) == [st EXCEPT ![p] = "approved"]

\* async_approve_proposal up to its publish
ApproveProposal(p, approver) ==
    /\ pc = "idle"
    /\ calls < MaxCalls
    /\ calls' = calls + 1
    /\ IF ~Loaded(p)
       THEN /\ lastReturn' = [op |-> "approve_proposal", proposal_id |-> p,
                              loaded |-> "none", value |-> "None"]
            /\ UNCHANGED <<status, queue, pc>>
       ELSE /\ WriteAllowed(p)
            /\ status' = ApproveSetsStatus(status, p)
            /\ queue' = publish(queue, Event("proposal.approved", p, "", approver, NoReport))
            /\ pc' = "approve"
            /\ lastReturn' = [op |-> "approve_proposal", proposal_id |-> p,
                              loaded |-> status[p], value |-> "pending"]
    /\ UNCHANGED <<coverage, artifacts, validationReports, evaluationScores, appliedCommits,
                   proposers, inflight, orchLog, ledger, merged, lawVars, ledgerVars, busVars, svcVars>>

\* flush(): the next event of the queue, when no handler is in progress
NextEvent == Head(queue)

CanDispatch(name) ==
    /\ pc # "idle"
    /\ inflight = <<>>
    /\ queue # <<>>
    /\ NextEvent.name = name

\* Orchestrator._handle_created up to its last statement: the publish of
\* "proposal.validated", or the log of the rejection
HandleCreated ==
    /\ CanDispatch("proposal.created")
    /\ LET e == NextEvent
           p == e.proposal_id
           report == validate_proposal(p)
       IN  IF ~Loaded(p)
           THEN /\ queue' = Tail(queue)
                /\ UNCHANGED <<ledger, validationReports, orchLog, inflight>>
           ELSE /\ validationReports' = Put(validationReports, p, report)
                /\ inflight' = <<e>>
                /\ IF report.compliant
                   THEN /\ ledger' = LedgerAppend(
                                         LedgerAppend(ledger, LedgerEntry(p, e.proposer, "created")),
                                         LedgerEntry(p, e.proposer, "validated"))
                        /\ queue' = publish(Tail(queue),
                                            Event("proposal.validated", p, e.proposer, "", report))
                        /\ UNCHANGED orchLog
                   ELSE /\ ledger' = LedgerAppend(
                                         LedgerAppend(ledger, LedgerEntry(p, e.proposer, "created")),
                                         LedgerEntry(p, e.proposer, "rejected"))
                        /\ queue' = Tail(queue)
                        /\ orchLog' = LogRecord("proposal_validation_failed", p)
    /\ UNCHANGED <<status, coverage, artifacts, evaluationScores, appliedCommits, proposers,
                   pc, lastReturn, merged, calls, lawVars, ledgerVars, busVars, svcVars>>

\* Orchestrator._handle_created returns to flush()
HandleCreatedReturn ==
    /\ pc # "idle"
    /\ inflight # <<>>
    /\ inflight[1].name = "proposal.created"
    /\ inflight' = <<>>
    /\ UNCHANGED <<status, coverage, artifacts, validationReports, evaluationScores,
                   appliedCommits, proposers, queue, pc, lastReturn, orchLog, ledger, merged,
                   calls, lawVars, ledgerVars, busVars, svcVars>>

\* Orchestrator._handle_validated, lines 183-198: cache the report, mark ready
HandleValidatedReady ==
    /\ CanDispatch("proposal.validated")
    /\ LET e == NextEvent
           p == e.proposal_id
           report == e.report
           coverage_percent == report.coverage
       IN  /\ validationReports' = Put(validationReports, p, report)
           /\ queue' = Tail(queue)
           /\ IF ~report.compliant
              THEN UNCHANGED <<status, coverage, inflight>>
              ELSE /\ inflight' = <<e>>
                   /\ IF coverage_percent >= ReviewGatePercent /\ Loaded(p) /\ WriteAllowed(p)
                      THEN /\ status' = [status EXCEPT ![p] = "ready"]
                           /\ coverage' = [coverage EXCEPT ![p] = coverage_percent * 100]
                      ELSE UNCHANGED <<status, coverage>>
    /\ UNCHANGED <<artifacts, evaluationScores, appliedCommits, proposers, pc, lastReturn,
                   orchLog, ledger, merged, calls, lawVars, ledgerVars, busVars, svcVars>>

\* Orchestrator._handle_validated, lines 199-227: present and score
HandleValidatedPresent ==
    /\ pc # "idle"
    /\ inflight # <<>>
    /\ inflight[1].name = "proposal.validated"
    /\ LET p == inflight[1].proposal_id
       IN  /\ inflight' = <<>>
           /\ IF Loaded(p) /\ WriteAllowed(p)
              THEN /\ status' = [status EXCEPT ![p] = "awaiting_approval"]
                   /\ evaluationScores' = evaluationScores \cup {p}
                   /\ orchLog' = LogRecord("proposal_evaluated", p)
              ELSE UNCHANGED <<status, evaluationScores, orchLog>>
    /\ UNCHANGED <<coverage, artifacts, validationReports, appliedCommits, proposers, queue,
                   pc, lastReturn, ledger, merged, calls, lawVars, ledgerVars, busVars, svcVars>>

\* TesterAgent.run_tests under guard("tester"): raises, or reports a status
TesterRaises ==
    \/ RequireAgentOutcome(S_tester) # "returns"
    \/ ~EnforceReturns("filesystem_write", PathStr(Child(cwd, S_proposals)))

TestStatuses == {"passed", "failed", "skipped"}

\* Updater.apply: raises unless the merge rule allows, the diff exists and git succeeds
ApplySucceeds(p, mergeAllowed, gitOk) ==
    /\ mergeAllowed
    /\ "diff.patch" \in artifacts[p]
    /\ gitOk

\* Orchestrator._handle_approved
HandleApproved ==
    /\ CanDispatch("proposal.approved")
    /\ queue' = Tail(queue)
    /\ LET p == NextEvent.proposal_id
           proposer == IF Has(proposers, p) THEN proposers[p] ELSE "unknown"
           testerRaises == TesterRaises
           mergeAllowed == EnforceReturns("code_merge", S_approved)
       IN  \E testStatus \in TestStatuses, dryRun \in BOOLEAN, gitOk \in BOOLEAN :
              IF ~Loaded(p)
              THEN UNCHANGED <<appliedCommits, ledger, merged, orchLog>>
              ELSE IF testerRaises
              THEN /\ orchLog' = LogRecord("handler_error", p)
                   /\ UNCHANGED <<appliedCommits, ledger, merged>>
              ELSE IF testStatus \notin {"passed", "skipped"}
              THEN /\ orchLog' = LogRecord("tests_failed", p)
                   /\ UNCHANGED <<appliedCommits, ledger, merged>>
              ELSE IF ~dryRun /\ ~ApplySucceeds(p, mergeAllowed, gitOk)
              THEN /\ orchLog' = LogRecord("apply_failed", p)
                   /\ UNCHANGED <<appliedCommits, ledger, merged>>
              ELSE /\ appliedCommits' =
                        Put(appliedCommits, p, IF dryRun THEN "dry-run" ELSE "sha")
                   /\ merged' = [merged EXCEPT ![p] = IF dryRun THEN @ ELSE @ + 1]
                   /\ ledger' = LedgerAppend(ledger, LedgerEntry(p, proposer, "approved"))
                   /\ orchLog' = LogRecord("proposal_approved", p)
    /\ UNCHANGED <<status, coverage, artifacts, validationReports, evaluationScores, proposers,
                   inflight, pc, lastReturn, calls, lawVars, ledgerVars, busVars, svcVars>>

\* flush() finds the queue empty and the public call returns
ReturnFromCall ==
    /\ pc # "idle"
    /\ queue = <<>>
    /\ inflight = <<>>
    /\ pc' = "idle"
    /\ lastReturn' =
          [lastReturn EXCEPT !.value =
              IF pc = "approve"
              THEN (IF Has(appliedCommits, lastReturn.proposal_id)
                    THEN appliedCommits[lastReturn.proposal_id] ELSE "None")
              ELSE "lifecycle"]
    /\ UNCHANGED <<status, coverage, artifacts, validationReports, evaluationScores,
                   appliedCommits, proposers, queue, inflight, orchLog, ledger, merged, calls,
                   lawVars, ledgerVars, busVars, svcVars>>

\* Orchestrator.__init__ on the same store and ledger: fresh caches and bus
NewOrchestrator ==
    /\ pc = "idle"
    /\ validationReports # <<>> \/ appliedCommits # <<>>
    /\ validationReports' = <<>>
    /\ evaluationScores' = {}
    /\ appliedCommits' = <<>>
    /\ proposers' = <<>>
    /\ queue' = <<>>
    /\ UNCHANGED <<status, coverage, artifacts, inflight, pc, lastReturn, orchLog, ledger,
                   merged, calls, lawVars, ledgerVars, busVars, svcVars>>

\* a file of a proposal directory is removed from outside the orchestrator
RemovableFiles == {"diff.patch"}

ExternalRemove(p, f) ==
    /\ pc = "idle"
    /\ f \in artifacts[p]
    /\ artifacts' = [artifacts EXCEPT ![p] = @ \ {f}]
    /\ UNCHANGED <<status, coverage, validationReports, evaluationScores, appliedCommits,
                   proposers, queue, inflight, pc, lastReturn, orchLog, ledger, merged, calls,
                   lawVars, ledgerVars, busVars, svcVars>>

\* processes (orchestrator instances) that share one ledger file
Writers == {"w1", "w2"}

NoEntry == [proposal_id |-> "", proposer |-> "", status |-> "", digest |-> <<>>]

NoRead == [op |-> "none", yielded |-> 0, raised |-> FALSE]

\* no Ledger is being driven directly
LedgerUnused ==
    /\ dirFiles = <<>>
    /\ writerPc = [w \in Writers |-> "idle"]
    /\ writerEntry = [w \in Writers |-> NoEntry]
    /\ readResult = NoRead
    /\ hashed = <<>>

NoEvent == [name |-> "", created_at |-> 0]

\* no EventBus is being driven directly
BusUnused ==
    /\ busCurrent = NoEvent
    /\ busPending = <<>>
    /\ published = <<>>
    /\ dispatched = <<>>

NoEnv == [retries |-> 0, timeout |-> 0]

NoChild == [running |-> FALSE, duration |-> 0, returncode |-> 0]

\* os.getenv of a variable that is not set returns None
Unset == [set |-> FALSE, value |-> <<>>]

\* no events.EventBus, connector, packaging, sandbox or token check is driven
SvcUnused ==
    /\ evTasks = <<>>
    /\ evQueue = <<>>
    /\ evInvoked = <<>>
    /\ urEnv = NoEnv
    /\ urPc = "idle"
    /\ urPrompt = <<>>
    /\ urAttempt = 0
    /\ urClients = <<>>
    /\ urLog = <<>>
    /\ urResult = <<>>
    /\ fsFiles = {}
    /\ wrTodo = <<>>
    /\ wrResult = "none"
    /\ sbTimeout = 0
    /\ sbChild = NoChild
    /\ sbRuns = <<>>
    /\ authKey = Unset
    /\ authLog = <<>>

OrchInit ==
    /\ status = [p \in PIDs |-> "none"]
    /\ coverage = [p \in PIDs |-> 0]
    /\ artifacts = [p \in PIDs |-> {}]
    /\ validationReports = <<>>
    /\ evaluationScores = {}
    /\ appliedCommits = <<>>
    /\ proposers = <<>>
    /\ queue = <<>>
    /\ inflight = <<>>
    /\ pc = "idle"
    /\ lastReturn = [op |-> "none", proposal_id |-> "", loaded |-> "none", value |-> "None"]
    /\ orchLog = LogRecord("none", "")
    /\ ledger = <<>>
    /\ merged = [p \in PIDs |-> 0]
    /\ calls = 0

Init ==
    /\ OrchInit
    /\ rules = RepoRules
    /\ registeredAgents = {S_tester}
    /\ audit = <<>>
    /\ cwd = RepoRoot
    /\ lawPc = "idle"
    /\ lawCall = NoCall
    /\ lawResult = NoResult
    /\ input = NoInput
    /\ LedgerUnused
    /\ BusUnused
    /\ SvcUnused

Next ==
    \/ \E p \in PIDs, proposer \in Proposers : DraftProposal(p, proposer)
    \/ \E p \in PIDs, approver \in Approvers : ApproveProposal(p, approver)
    \/ HandleCreated
    \/ HandleCreatedReturn
    \/ HandleValidatedReady
    \/ HandleValidatedPresent
    \/ HandleApproved
    \/ ReturnFromCall
    \/ NewOrchestrator
    \/ \E p \in PIDs, f \in RemovableFiles : ExternalRemove(p, f)

Spec == Init /\ [][Next]_vars

(***************************************************************************)
(* Specification of the orchestrator with its bus open to other publishers: *)
(* Orchestrator.bus is a public attribute and may be passed in by the caller *)
(***************************************************************************)
\* the "report" part of a "proposal.validated" payload: absent, or a dict
PayloadReports ==
    {NoReport,
     [compliant |-> TRUE, issues |-> <<"coverage below threshold">>, coverage |-> 95]}

\* await orchestrator.bus.publish("proposal.validated", payload) by another component
PublishValidated(p, report) ==
    /\ pc = "idle"
    /\ calls < MaxCalls
    /\ calls' = calls + 1
    /\ queue' = publish(queue, Event("proposal.validated", p, "engineers", "", report))
    /\ UNCHANGED <<status, coverage, artifacts, validationReports, evaluationScores,
                   appliedCommits, proposers, inflight, pc, lastReturn, orchLog, ledger, merged,
                   lawVars, ledgerVars, busVars, svcVars>>

OpenBusNext ==
    \/ Next
    \/ \E p \in PIDs, report \in PayloadReports : PublishValidated(p, report)

SpecOpenBus == Init /\ [][OpenBusNext]_vars

(***************************************************************************)
(* Specification of the policy engine                                       *)
(***************************************************************************)
LawCallRules == {"filesystem_write", "code_merge", "agent_entry", "no_such_rule"}

LawContexts == {S_approved, S_denied, S_tester}

LawsInit ==
    /\ rules \in Catalogs
    /\ registeredAgents = {}
    /\ audit = <<>>
    /\ cwd = RepoRoot
    /\ lawPc = "idle"
    /\ lawCall = NoCall
    /\ lawResult = NoResult
    /\ input = NoInput
    /\ OrchInit
    /\ LedgerUnused
    /\ BusUnused
    /\ SvcUnused

LawsNext ==
    \/ \E rule_name \in LawCallRules, context \in LawContexts : EnforceCall(rule_name, context)
    \/ EnforceAudit
    \/ EnforceFinish
    \/ \E agent_name \in Agents : register_agent(agent_name)
    \/ \E agent_name \in Agents : GuardedCall(agent_name)

SpecLaws == LawsInit /\ [][LawsNext]_vars

(***************************************************************************)
(* Specification applying enforce() to one drawn (rule, context) pair       *)
(***************************************************************************)
PathAlphabet ==
    {S_repo, S_proposals, S_proposals_old, S_docs, S_etc, S_link, S_x, S_dot, S_dotdot}

PathContexts ==
    {PathStr([abs |-> a, parts |-> q]) :
        a \in BOOLEAN, q \in UNION {[1..n -> PathAlphabet] : n \in 0..MaxPathLen}}

TokenContexts == {S_approved, S_Approved, S_APPROVED, S_denied, <<>>}

\* __file__ of octobot/connectors/unreal_bridge.py, as query_unreal passes it
ConnectorFile ==
    [abs |-> TRUE, parts |-> <<S_repo, S_octobot, S_connectors, S_unreal_bridge_py>>]

\* contexts a caller of enforce("external_request", ...) can pass
ConnectorContexts ==
    {PathStr(ConnectorFile),
     PathStr([abs |-> FALSE, parts |-> <<S_connectors, S_unreal_bridge_py>>]),
     PathStr([abs |-> TRUE, parts |-> <<S_repo, S_octobot, S_fake_connectors, S_unreal_bridge_py>>]),
     PathStr([abs |-> FALSE, parts |-> <<S_fake_connectors, S_unreal_bridge_py>>]),
     PathStr([abs |-> TRUE, parts |-> <<S_repo, S_octobot, S_connectors, S_x>>]),
     PathStr([abs |-> TRUE, parts |-> <<S_repo, S_octobot, S_connectors, S_unreal_bridge_py, S_x>>]),
     S_unreal_bridge_py,
     <<>>}

PureInputs ==
    {[rule |-> "filesystem_write", context |-> c] : c \in PathContexts}
    \cup {[rule |-> "code_merge", context |-> c] : c \in TokenContexts}
    \cup {[rule |-> "external_request", context |-> c] : c \in ConnectorContexts}

Cwds == {RepoRoot, proposals_root}

PureInit ==
    /\ rules \in Catalogs
    /\ registeredAgents = {}
    /\ audit = <<>>
    /\ cwd \in Cwds
    /\ lawPc = "idle"
    /\ lawCall = NoCall
    /\ lawResult = NoResult
    /\ input \in PureInputs
    /\ OrchInit
    /\ LedgerUnused
    /\ BusUnused
    /\ SvcUnused

PureNext ==
    \/ EnforceCall(input.rule, input.context)
    \/ EnforceAudit
    \/ EnforceFinish

SpecPure == PureInit /\ [][PureNext]_vars

(***************************************************************************)
(* Specification of octobot.memory.ledger: processes appending to and       *)
(* reading one ledger file while the hashed proposal directory changes      *)
(***************************************************************************)
LedgerFileNames == {<<"a">>, <<"a", "b">>}

LedgerFileContents == {<<"a">>, <<"b">>}

LedgerDirs == [LedgerFileNames -> LedgerFileContents]

\* the orders in which rglob can return a set of files
Listings(names) ==
    {q \in [1..Cardinality(names) -> names] : \A i, j \in DOMAIN q : q[i] = q[j] => i = j}

LedgerStatuses == {"created"}

\* Ledger.append, lines 39-45: the entry, with the digest of the directory
NewLedgerEntry(p, proposer, st, files, listing) ==
    [proposal_id |-> p, proposer |-> proposer, status |-> st,
     digest |-> _hash_proposal(files, listing)]

\* the line a write leaves when only its first bytes reach the file
Truncated(entry) == [proposal_id |-> entry.proposal_id]

\* json.loads(line) and LedgerEntry(**data) succeed
Parses(line) == DOMAIN line = {"proposal_id", "proposer", "status", "digest"}

\* the read loop of iter_entries and _read_ledger: json.loads raises on the first
\* line that is not a complete JSON object
RECURSIVE ReadLines(_)
ReadLines(lines) ==
    IF lines = <<>> THEN [entries |-> <<>>, raised |-> FALSE]
    ELSE IF ~Parses(Head(lines)) THEN [entries |-> <<>>, raised |-> TRUE]
    ELSE LET rest == ReadLines(Tail(lines))
         IN  [entries |-> <<Head(lines)>> \o rest.entries, raised |-> rest.raised]

\* Ledger.iter_entries: a generator, the entries before a bad line are yielded
iter_entries(lines) == ReadLines(lines)

\* ComplianceAudit._read_ledger: a list, nothing is returned when a line is bad
_read_ledger(lines) ==
    LET r == ReadLines(lines)
    IN  IF r.raised THEN [entries |-> <<>>, raised |-> TRUE] ELSE r

orchVarsButLedger ==
    <<status, coverage, artifacts, validationReports, evaluationScores, appliedCommits,
      proposers, queue, inflight, pc, lastReturn, orchLog, merged, calls>>

\* Ledger.append, lines 39-46: hash the directory, build the entry, open the file
AppendHash(w, st) ==
    /\ writerPc[w] = "idle"
    /\ Len(hashed) < MaxAppends
    /\ \E listing \in Listings(DOMAIN dirFiles) :
          LET entry == NewLedgerEntry("p1", "engineers", st, dirFiles, listing)
          IN  /\ writerEntry' = [writerEntry EXCEPT ![w] = entry]
              /\ hashed' = Append(hashed, [files |-> dirFiles, listing |-> listing,
                                           digest |-> entry.digest])
    /\ writerPc' = [writerPc EXCEPT ![w] = "open"]
    /\ UNCHANGED <<dirFiles, readResult, ledger, orchVarsButLedger, lawVars, busVars, svcVars>>

\* what a write can leave in the file: the whole line, or, when another process
\* is writing the same file at the same time, a line cut by the other write
WriteOutcomes(w) ==
    {writerEntry[w]}
    \cup (IF \E o \in Writers \ {w} : writerPc[o] = "open"
          THEN {Truncated(writerEntry[w])} ELSE {})

\* Ledger.append, lines 47-48: write the line, close the file, return
AppendWrite(w) ==
    /\ writerPc[w] = "open"
    /\ \E line \in WriteOutcomes(w) : ledger' = LedgerAppend(ledger, line)
    /\ writerPc' = [writerPc EXCEPT ![w] = "idle"]
    /\ writerEntry' = [writerEntry EXCEPT ![w] = NoEntry]
    /\ readResult' = NoRead
    /\ UNCHANGED <<dirFiles, hashed, orchVarsButLedger, lawVars, busVars, svcVars>>

\* the process dies in the middle of the write of line 47
CrashMidWrite(w) ==
    /\ writerPc[w] = "open"
    /\ ledger' = LedgerAppend(ledger, Truncated(writerEntry[w]))
    /\ writerPc' = [writerPc EXCEPT ![w] = "crashed"]
    /\ writerEntry' = [writerEntry EXCEPT ![w] = NoEntry]
    /\ readResult' = NoRead
    /\ UNCHANGED <<dirFiles, hashed, orchVarsButLedger, lawVars, busVars, svcVars>>

\* Ledger.__init__ in a restarted process: an existing file is left as it is
LedgerNew(w) ==
    /\ writerPc[w] = "crashed"
    /\ writerPc' = [writerPc EXCEPT ![w] = "idle"]
    /\ UNCHANGED <<dirFiles, writerEntry, readResult, hashed, ledger, orchVarsButLedger,
                   lawVars, busVars, svcVars>>

\* list(ledger.iter_entries())
ReadIterEntries ==
    /\ LET r == iter_entries(ledger)
       IN  readResult' = [op |-> "iter_entries", yielded |-> Len(r.entries),
                          raised |-> r.raised]
    /\ UNCHANGED <<dirFiles, writerPc, writerEntry, hashed, ledger, orchVarsButLedger,
                   lawVars, busVars, svcVars>>

\* ComplianceAudit._read_ledger()
ReadAudit ==
    /\ LET r == _read_ledger(ledger)
       IN  readResult' = [op |-> "_read_ledger", yielded |-> Len(r.entries),
                          raised |-> r.raised]
    /\ UNCHANGED <<dirFiles, writerPc, writerEntry, hashed, ledger, orchVarsButLedger,
                   lawVars, busVars, svcVars>>

\* a file of the proposal directory gets another content
ModifyFile(name, content) ==
    /\ dirFiles[name] # content
    /\ dirFiles' = [dirFiles EXCEPT ![name] = content]
    /\ UNCHANGED <<writerPc, writerEntry, readResult, hashed, ledger, orchVarsButLedger,
                   lawVars, busVars, svcVars>>

LedgerInit ==
    /\ OrchInit
    /\ rules = RepoRules
    /\ registeredAgents = {}
    /\ audit = <<>>
    /\ cwd = RepoRoot
    /\ lawPc = "idle"
    /\ lawCall = NoCall
    /\ lawResult = NoResult
    /\ input = NoInput
    /\ dirFiles \in LedgerDirs
    /\ writerPc = [w \in Writers |-> "idle"]
    /\ writerEntry = [w \in Writers |-> NoEntry]
    /\ readResult = NoRead
    /\ hashed = <<>>
    /\ BusUnused
    /\ SvcUnused

LedgerNext ==
    \/ \E w \in Writers, st \in LedgerStatuses : AppendHash(w, st)
    \/ \E w \in Writers : AppendWrite(w)
    \/ \E w \in Writers : CrashMidWrite(w)
    \/ \E w \in Writers : LedgerNew(w)
    \/ ReadIterEntries
    \/ ReadAudit
    \/ \E name \in LedgerFileNames, content \in LedgerFileContents : ModifyFile(name, content)

SpecLedger == LedgerInit /\ [][LedgerNext]_vars

(***************************************************************************)
(* Specification of the EventBus class: callers publish, flush() dispatches *)
(* to the subscribed handlers, and a handler may return, raise or publish    *)
(***************************************************************************)
BusEventNames == {"proposal.created", "proposal.validated", "other"}

\* EventBus._subscribers after subscribe(): handlers in subscription order
BusSubscribers ==
    [name \in BusEventNames |->
       CASE name = "proposal.created" -> <<"_handle_created", "observer">>
         [] name = "proposal.validated" -> <<"_handle_validated">>
         [] OTHER -> <<>>]

\* Event(name, payload, created_at); created_at orders the publications
BusEvent(name) == [name |-> name, created_at |-> Len(published) + 1]

orchVarsButBus ==
    <<status, coverage, artifacts, validationReports, evaluationScores, appliedCommits,
      proposers, inflight, lastReturn, ledger, merged, calls>>

\* await bus.publish(event_name, payload) by a caller outside flush()
BusPublish(name) ==
    /\ pc = "idle"
    /\ Len(published) < MaxEvents
    /\ queue' = publish(queue, BusEvent(name))
    /\ published' = Append(published, BusEvent(name))
    /\ UNCHANGED <<busCurrent, busPending, dispatched, pc, orchLog, orchVarsButBus, lawVars,
                   ledgerVars, svcVars>>

FlushLoopEndsEarly(q) == Len(q) <= 1

\* flush(), line 56: while not self._queue.empty()
FlushLoopEnds(q) == q = <<>>

\* await bus.flush() is called
BusFlush ==
    /\ pc = "idle"
    /\ pc' = "flush"
    /\ UNCHANGED <<queue, orchLog, orchVarsButBus, lawVars, ledgerVars, busVars, svcVars>>

\* flush(), lines 56-58: take the next event and look up its handlers
BusGet ==
    /\ pc = "flush"
    /\ busPending = <<>>
    /\ ~FlushLoopEnds(queue)
    /\ queue # <<>>
    /\ busCurrent' = Head(queue)
    /\ queue' = Tail(queue)
    /\ busPending' = BusSubscribers[Head(queue).name]
    /\ UNCHANGED <<published, dispatched, pc, orchLog, orchVarsButBus, lawVars, ledgerVars, svcVars>>

\* flush(), lines 59-68: await the next handler; it returns, raises (logged by
\* flush) or publishes a further event before it returns
BusHandler ==
    /\ pc = "flush"
    /\ busPending # <<>>
    /\ dispatched' = Append(dispatched, [event |-> busCurrent, handler |-> Head(busPending)])
    /\ busPending' = Tail(busPending)
    /\ \/ UNCHANGED <<queue, published, orchLog>>
       \/ /\ orchLog' = LogRecord("handler_error", busCurrent.name)
          /\ UNCHANGED <<queue, published>>
       \/ \E name \in BusEventNames :
             /\ Len(published) < MaxEvents
             /\ queue' = publish(queue, BusEvent(name))
             /\ published' = Append(published, BusEvent(name))
             /\ UNCHANGED orchLog
    /\ UNCHANGED <<busCurrent, pc, orchVarsButBus, lawVars, ledgerVars, svcVars>>

\* flush(), line 56: the queue is empty and flush() returns
BusFlushDone ==
    /\ pc = "flush"
    /\ busPending = <<>>
    /\ FlushLoopEnds(queue)
    /\ pc' = "idle"
    /\ UNCHANGED <<queue, orchLog, orchVarsButBus, lawVars, ledgerVars, busVars, svcVars>>

BusInit ==
    /\ OrchInit
    /\ rules = RepoRules
    /\ registeredAgents = {}
    /\ audit = <<>>
    /\ cwd = RepoRoot
    /\ lawPc = "idle"
    /\ lawCall = NoCall
    /\ lawResult = NoResult
    /\ input = NoInput
    /\ LedgerUnused
    /\ BusUnused
    /\ SvcUnused

BusNext ==
    \/ \E name \in BusEventNames : BusPublish(name)
    \/ BusFlush
    \/ BusGet
    \/ BusHandler
    \/ BusFlushDone

SpecBus == BusInit /\ [][BusNext]_vars

(***************************************************************************)
(* Properties                                                               *)
(***************************************************************************)
ApprovedEntries(p) ==
    {i \in DOMAIN ledger : ledger[i].proposal_id = p /\ ledger[i].status = "approved"}

\* The lifecycle graph in the status words the store uses: Created is "draft",
\* Validated is "ready", AwaitingApproval is "awaiting_approval", Approved is
\* "approved"; Evaluated, Rejected and Applied are never written as a status.
LifecycleEdges ==
    {<<"none", "draft">>, <<"draft", "ready">>, <<"ready", "awaiting_approval">>,
     <<"awaiting_approval", "approved">>}

\* C1: every change of a proposal's status follows an edge of the lifecycle graph.
C1_StatusFollowsLifecycle ==
    [][\A p \in PIDs :
          status'[p] # status[p] => <<status[p], status'[p]>> \in LifecycleEdges]_vars

\* C2: approval fails closed: a proposal becomes approved, or has its patch applied,
\* only while the orchestrator caches a compliant validation report for it.
C2_ApprovalFailsClosed ==
    [][\A p \in PIDs :
          (\/ (status'[p] = "approved" /\ status[p] # "approved")
           \/ merged'[p] > merged[p])
          => (Has(validationReports, p) /\ validationReports[p].compliant)]_vars

\* C3: a proposal whose coverage is below 0.90 is never marked approved and never
\* gets a commit recorded, whoever asks.
C3_LowCoverageNeverApproved ==
    [][\A p \in PIDs :
          (Loaded(p) /\ coverage[p] < 90)
          => /\ (status[p] # "approved" => status'[p] # "approved")
             /\ (~Has(appliedCommits, p) => ~Has(appliedCommits', p))]_vars

\* C4: over any sequence of approvals of one proposal its patch is applied at most
\* once and at most one "approved" ledger entry is appended for it.
C4_ApprovedAtMostOnce ==
    \A p \in PIDs : merged[p] <= 1 /\ Cardinality(ApprovedEntries(p)) <= 1

\* C5: a proposal that is awaiting approval or approved has coverage >= 0.90, in
\* its metadata and in any validation report cached for it.
C5_CoverageGate ==
    \A p \in PIDs :
       status[p] \in {"awaiting_approval", "approved"}
       => /\ coverage[p] >= 90
          /\ (Has(validationReports, p) => validationReports[p].coverage >= 90)

\* C6: when an approval of a proposal that was awaiting approval ends with failed
\* tests or a failed apply step, the proposal is not left approved, no commit is
\* recorded for it and no "approved" ledger entry exists for it.
C6_FailedApprovalIsRejected ==
    \A p \in PIDs :
       (/\ pc = "idle"
        /\ lastReturn.op = "approve_proposal"
        /\ lastReturn.proposal_id = p
        /\ lastReturn.loaded = "awaiting_approval"
        /\ orchLog \in {LogRecord("tests_failed", p), LogRecord("apply_failed", p)})
       => /\ status[p] # "approved"
          /\ ~Has(appliedCommits, p)
          /\ ApprovedEntries(p) = {}

\* C7: every enforce() of a catalogued rule appends exactly one decision record
\* (rule, context, allowed or blocked), on a deny as on an allow, and the record
\* is in the audit log when the call returns or raises.
C7_EveryDecisionAudited ==
    [][/\ (lawResult' # lawResult /\ lawResult'.op = "enforce" /\ lawResult'.rule \in rules)
          => /\ lawPc = "finish"
             /\ audit' # <<>>
             /\ audit'[Len(audit')] =
                   [rule |-> lawResult'.rule,
                    status |-> IF lawResult'.outcome = "True" THEN "allowed" ELSE "blocked",
                    context |-> lawResult'.context]
       /\ (lawPc = "audit" => (Len(audit') = Len(audit) + 1 /\ lawPc' = "finish"))
       /\ (audit' # audit
           => /\ lawPc = "audit"
              /\ Len(audit') = Len(audit) + 1
              /\ SubSeq(audit', 1, Len(audit)) = audit)]_vars

C7_Witness ==
    /\ lawResult.op = "enforce"
    /\ lawResult.rule \in rules
    /\ lawResult.outcome = "RuleViolationError"
    /\ Len(audit) = 2
    /\ audit[2].status = "blocked"

\* C8: a policy check that names a rule absent from the catalog fails with an
\* error and never lets the guarded action run.
C8_UnknownRuleIsError ==
    (lawResult.op \in {"enforce", "guard"} /\ lawResult.rule \notin rules)
    => lawResult.outcome = "RuleViolationError"

\* C9: enforce("code_merge", context) returns True exactly when context is the
\* string "approved", compared case-sensitively.
C9_CodeMergeCaseSensitive ==
    (lawResult.op = "enforce" /\ lawResult.rule = "code_merge" /\ "code_merge" \in rules)
    => (lawResult.outcome = "True" <=> lawResult.context = S_approved)

\* The path a context names, as the claim reads it: its segments are the maximal
\* runs of characters other than "/"; taken from the working directory when the
\* context does not start with "/"; "." is skipped, ".." steps to the parent, and a
\* symbolic link is replaced by its target.
SegmentStarts(s) == {i \in 1..Len(s) : s[i] # "/" /\ (i = 1 \/ s[i - 1] = "/")}

SegmentAt(s, i) ==
    LET stop == CHOOSE j \in i..Len(s) :
                   /\ \A k \in i..j : s[k] # "/"
                   /\ (j = Len(s) \/ s[j + 1] = "/")
    IN  [k \in 1..(stop - i + 1) |-> s[i + k - 1]]

RECURSIVE Walk(_, _, _)
Walk(s, starts, at) ==
    IF starts = {} THEN at
    ELSE LET i == CHOOSE j \in starts : \A k \in starts : j <= k
             seg == SegmentAt(s, i)
             step == IF seg = S_dot THEN at
                     ELSE IF seg = S_dotdot
                          THEN [k \in 1..(IF at = <<>> THEN 0 ELSE Len(at) - 1) |-> at[k]]
                     ELSE IF at \o <<seg>> = SymlinkAt THEN SymlinkTarget
                     ELSE at \o <<seg>>
         IN  Walk(s, starts \ {i}, step)

CanonicalParts(s, workdir) ==
    Walk(s, SegmentStarts(s), IF s # <<>> /\ s[1] = "/" THEN <<>> ELSE workdir.parts)

ClaimedRoots ==
    {<<S_repo, S_proposals>>, <<S_repo, S_ventures>>, <<S_repo, S_docs>>,
     <<S_repo, S_memory>>}

Under(parts, root) ==
    Len(parts) >= Len(root) /\ \A k \in 1..Len(root) : parts[k] = root[k]

\* C10: enforce("filesystem_write", p) returns True exactly when p, with ".."
\* and symbolic links resolved, lies inside an allowed root; everything that
\* resolves under the proposals root is allowed, everything else raises.
C10_FilesystemWriteInsideRoots ==
    (lawResult.op = "enforce" /\ lawResult.rule = "filesystem_write"
     /\ "filesystem_write" \in rules)
    => LET canon == CanonicalParts(lawResult.context, cwd)
       IN  /\ lawResult.outcome = "True" <=> \E root \in ClaimedRoots : Under(canon, root)
           /\ Under(canon, <<S_repo, S_proposals>>) => lawResult.outcome = "True"
           /\ lawResult.outcome \in {"True", "RuleViolationError"}

C10_Witness ==
    /\ lawResult.op = "enforce"
    /\ lawResult.rule = "filesystem_write"
    /\ lawResult.outcome = "RuleViolationError"
    /\ cwd = RepoRoot
    /\ lawResult.context = PathStr([abs |-> FALSE, parts |-> <<S_proposals, S_dotdot, S_x>>])

\* The file a context names is the connector module when its canonical path ends
\* with the directory "connectors" followed by the file "unreal_bridge.py".
NamesConnectorModule(context, workdir) ==
    LET canon == CanonicalParts(context, workdir)
    IN  /\ Len(canon) >= 2
        /\ canon[Len(canon) - 1] = S_connectors
        /\ canon[Len(canon)] = S_unreal_bridge_py

\* C11: enforce("external_request", context) returns True only when context names
\* the unreal_bridge connector module; a context naming any other module or file
\* raises RuleViolationError.
C11_ExternalRequestOnlyConnector ==
    (lawResult.op = "enforce" /\ lawResult.rule = "external_request"
     /\ "external_request" \in rules)
    => /\ lawResult.outcome = "True" => NamesConnectorModule(lawResult.context, cwd)
       /\ lawResult.outcome \in {"True", "RuleViolationError"}

\* C12: two enforce() calls with the same rule name and context record the same
\* decision, whatever ran between them (register_agent included).
C12_EnforceDeterministic ==
    \A i \in DOMAIN audit, j \in DOMAIN audit :
       (audit[i].rule = audit[j].rule /\ audit[i].context = audit[j].context)
       => audit[i].status = audit[j].status

\* the ledger lines recorded for proposal p
EntriesOf(p) == {i \in DOMAIN ledger : ledger[i].proposal_id = p}

LatestEntry(p) == ledger[CHOOSE i \in EntriesOf(p) : \A j \in EntriesOf(p) : j <= i]

\* C13: once draft_proposal or approve_proposal has returned, and the proposal
\* directory holds the files the orchestrator wrote, re-hashing the directory gives
\* the digest of the latest ledger entry of that proposal.
C13_RehashMatchesLatestEntry ==
    \A p \in PIDs :
       (/\ pc = "idle"
        /\ lastReturn.op \in {"draft_proposal", "approve_proposal"}
        /\ artifacts[p] = ArtifactFiles
        /\ EntriesOf(p) # {})
       => LatestEntry(p).digest = _hash_proposal(DirOf(p), ListingOf(DOMAIN DirOf(p)))

\* two directories hold the same paths and differ in the content of one file
OneFileChanged(f, g) ==
    /\ DOMAIN f = DOMAIN g
    /\ Cardinality({n \in DOMAIN f : f[n] # g[n]}) = 1

\* C14: the digest an append records depends on the artifact set only: identical
\* artifacts give identical digests in whatever order the directory lists them,
\* and a change of the content of one file gives a different digest.
C14_DigestFunctionOfArtifacts ==
    \A i \in DOMAIN hashed, j \in DOMAIN hashed :
       /\ hashed[i].files = hashed[j].files => hashed[i].digest = hashed[j].digest
       /\ OneFileChanged(hashed[i].files, hashed[j].files)
          => hashed[i].digest # hashed[j].digest

C14_Witness ==
    /\ Len(hashed) = 2
    /\ hashed[1].files = hashed[2].files
    /\ hashed[1].listing # hashed[2].listing
    /\ Len(ledger) = 2
    /\ \A i \in DOMAIN ledger : Parses(ledger[i])
    /\ ledger[1].digest = ledger[2].digest

IsPrefix(a, b) == Len(a) <= Len(b) /\ SubSeq(b, 1, Len(a)) = a

\* C15: the ledger is append-only: across every step the lines of the file, and
\* the entries a reader gets from it, are a prefix of what they are afterwards.
C15_LedgerAppendOnly ==
    [][/\ IsPrefix(ledger, ledger')
       /\ IsPrefix(iter_entries(ledger).entries, iter_entries(ledger').entries)]_vars

C15_Witness ==
    /\ Len(ledger) = 2
    /\ Parses(ledger[1])
    /\ Parses(ledger[2])
    /\ ledger[1].digest # ledger[2].digest
    /\ readResult = [op |-> "iter_entries", yielded |-> 2, raised |-> FALSE]

\* the file ends with one malformed line and every line before it is complete
TrailingPartialLine(lines) ==
    /\ lines # <<>>
    /\ ~Parses(lines[Len(lines)])
    /\ \A i \in 1..(Len(lines) - 1) : Parses(lines[i])

\* C16: reading a ledger whose last line is a truncated entry raises no error and
\* yields every complete entry before that line.
C16_ReadToleratesPartialTail ==
    (readResult.op \in {"iter_entries", "_read_ledger"} /\ TrailingPartialLine(ledger))
    => /\ ~readResult.raised
       /\ readResult.yielded = Len(ledger) - 1

\* C17: appends to a shared ledger file are serialized: at most one process is
\* between opening the file and finishing its write at any time.
C17_AppendsSerialized ==
    Cardinality({w \in Writers : writerPc[w] = "open"}) <= 1

\* the step publishes an event: the queue gets a new last element
Publishes ==
    /\ queue' # <<>>
    /\ queue' # queue
    /\ (queue # <<>> => queue' # Tail(queue))

\* C19: the transitions of one proposal are strictly sequential: when an event
\* for a proposal is published no handler for that proposal is still running,
\* and at most one handler is running at any time.
C19_TransitionsSequential ==
    [][/\ Len(inflight') <= 1
       /\ Publishes
          => \/ inflight' = <<>>
             \/ inflight'[1].proposal_id # queue'[Len(queue')].proposal_id]_vars

\* C18: the event queue is FIFO: handlers are invoked in the order their events
\* were published, and when a handler is invoked for an event every handler
\* subscribed to each earlier published event has already been invoked for it.
C18_QueueIsFifo ==
    \A j \in DOMAIN dispatched :
       /\ \A i \in 1..(j - 1) :
             dispatched[i].event.created_at <= dispatched[j].event.created_at
       /\ \A k \in 1..(dispatched[j].event.created_at - 1) :
             \A n \in DOMAIN BusSubscribers[published[k].name] :
                \E i \in 1..(j - 1) :
                   dispatched[i] = [event |-> published[k],
                                    handler |-> BusSubscribers[published[k].name][n]]

C18_Witness ==
    /\ Len(published) = 3
    /\ published[1].name = "proposal.created"
    /\ published[2].name = "proposal.validated"
    /\ published[3].name = "proposal.created"
    /\ Len(dispatched) = 5
    /\ dispatched[3].event = published[2]
    /\ dispatched[5] = [event |-> published[3], handler |-> "observer"]

\* C20: every validation report the orchestrator caches has compliant equal to
\* (issues is empty), reports rebuilt from an event payload included.
C20_CompliantIffNoIssues ==
    \A p \in DOMAIN validationReports :
       validationReports[p].compliant <=> (validationReports[p].issues = <<>>)

\* C21: every coverage value stored for a proposal is a fraction in [0,1]
\* (0..100 in hundredths), whatever generate, mark_ready_for_review and the
\* orchestrator handlers have written.
C21_CoverageIsFraction ==
    \A p \in PIDs : coverage[p] >= 0 /\ coverage[p] <= 100

(***************************************************************************)
(* Specification of draft_proposal alone: the pipeline from generate to    *)
(* the return of the call, with no approval in between.                    *)
(***************************************************************************)
DraftNext ==
    \/ \E p \in PIDs, proposer \in Proposers : DraftProposal(p, proposer)
    \/ HandleCreated
    \/ HandleCreatedReturn
    \/ HandleValidatedReady
    \/ HandleValidatedPresent
    \/ ReturnFromCall

SpecDraft == Init /\ [][DraftNext]_vars

\* the step publishes "proposal.validated" for p
PublishesValidated(p) ==
    /\ Publishes
    /\ queue'[Len(queue')].name = "proposal.validated"
    /\ queue'[Len(queue')].proposal_id = p

\* C22: for every "proposal.created" event of an existing proposal the ledger
\* receives a "created" entry followed by exactly one of "validated" or
\* "rejected" for that proposal; "validated" is recorded and
\* "proposal.validated" is published iff the validation report is compliant; a
\* non-compliant proposal is rejected while still a draft, and a compliant one
\* with coverage 0.95 is validated and is awaiting_approval when
\* draft_proposal returns.
C22_CreatedThenVerdict ==
    [][/\ \A p \in PIDs :
             (CanDispatch("proposal.created") /\ NextEvent.proposal_id = p /\ Loaded(p))
                => LET n == Len(ledger)
                   IN  /\ Len(ledger') = n + 2
                       /\ SubSeq(ledger', 1, n) = ledger
                       /\ ledger'[n + 1].proposal_id = p
                       /\ ledger'[n + 1].status = "created"
                       /\ ledger'[n + 2].proposal_id = p
                       /\ ledger'[n + 2].status \in {"validated", "rejected"}
                       /\ Has(validationReports', p)
                       /\ (ledger'[n + 2].status = "validated")
                             <=> validationReports'[p].compliant
                       /\ PublishesValidated(p) <=> validationReports'[p].compliant
                       /\ ~validationReports'[p].compliant => status'[p] = "draft"
                       /\ (coverage[p] = 95 /\ artifacts[p] = ArtifactFiles)
                             => ledger'[n + 2].status = "validated"
       /\ (pc = "draft" /\ pc' = "idle")
             => LET p == lastReturn.proposal_id
                IN  (/\ Has(validationReports, p)
                     /\ validationReports[p].compliant
                     /\ validationReports[p].coverage = 95)
                       => status'[p] = "awaiting_approval"]_vars

C22_Witness ==
    /\ pc = "idle"
    /\ Len(ledger) = 4
    /\ ledger[1].proposal_id = "p1" /\ ledger[1].status = "created"
    /\ ledger[2].proposal_id = "p1" /\ ledger[2].status = "validated"
    /\ ledger[3].proposal_id = "p2" /\ ledger[3].status = "created"
    /\ ledger[4].proposal_id = "p2" /\ ledger[4].status = "rejected"
    /\ validationReports["p1"].coverage = 95
    /\ status["p1"] = "awaiting_approval"
    /\ status["p2"] = "draft"

(***************************************************************************)
(* Specification of octobot.core.events.EventBus: emit creates one task    *)
(* per subscribed handler and puts the pair on the queue; the event loop   *)
(* runs the tasks later, in creation order.                                *)
(***************************************************************************)
MaxEmits == 2

EvEventTypes == {"proposal_approved", "proposal_rejected"}

\* the keyword arguments of an emit, as a dict
EvDataInputs == {<<>>, [proposal_id |-> "123"]}

\* bus.subscribers: handlers by event type, "*" for every event
EvSubscribers ==
    [proposal_approved |-> <<"handler">>, proposal_rejected |-> <<"on_rejected">>,
     any |-> <<"log_event">>]

\* the parameters each handler declares
EvParams(handler) ==
    CASE handler = "handler" -> [names |-> {"proposal_id"}, varkw |-> FALSE]
      [] handler = "on_rejected" -> [names |-> {"event_type", "proposal_id"}, varkw |-> FALSE]
      [] OTHER -> [names |-> {"event_type"}, varkw |-> TRUE]

\* a Python call handler(**kwargs) binds iff every parameter is given and no
\* keyword is unexpected
Accepts(handler, kwargs) ==
    /\ EvParams(handler).names \subseteq DOMAIN kwargs
    /\ EvParams(handler).varkw \/ DOMAIN kwargs \subseteq EvParams(handler).names

\* the keyword arguments _safe_invoke passes: handler(event_type=event_type, **data)
InvokeKwargs(event_type, data) == [event_type |-> event_type] @@ data

EvTask(handler, event_type, data) ==
    [handler |-> handler, event_type |-> event_type, data |-> data]

\* EventBus.emit
Emit(event_type, data) ==
    /\ Len(evQueue) + Len(evInvoked) + Len(evTasks) < 3 * MaxEmits
    /\ Len(evQueue) < MaxEmits
    /\ LET handlers == EvSubscribers[event_type] \o EvSubscribers["any"]
       IN  evTasks' = evTasks \o
                      [i \in DOMAIN handlers |-> EvTask(handlers[i], event_type, data)]
    /\ evQueue' = Append(evQueue, <<event_type, data>>)
    /\ UNCHANGED <<evInvoked, lawVars, orchVars, ledgerVars, busVars, urVars, wrVars,
                   sbVars, authVars>>

\* EventBus._safe_invoke, run by the event loop when the emitter next yields:
\* the handler body runs, or the call raises TypeError, which is caught
SafeInvoke ==
    /\ evTasks # <<>>
    /\ LET t == Head(evTasks)
           kwargs == InvokeKwargs(t.event_type, t.data)
       IN  evInvoked' = Append(evInvoked,
                               [handler |-> t.handler, event_type |-> t.event_type,
                                data |-> t.data, ran |-> Accepts(t.handler, kwargs)])
    /\ evTasks' = Tail(evTasks)
    /\ UNCHANGED <<evQueue, lawVars, orchVars, ledgerVars, busVars, urVars, wrVars,
                   sbVars, authVars>>

\* await bus.queue.get() by a consumer
EvQueueGet ==
    /\ evQueue # <<>>
    /\ evTasks = <<>>
    /\ evQueue' = Tail(evQueue)
    /\ UNCHANGED <<evTasks, evInvoked, lawVars, orchVars, ledgerVars, busVars, urVars,
                   wrVars, sbVars, authVars>>

EventsInit ==
    /\ Init

EventsNext ==
    \/ \E event_type \in EvEventTypes, data \in EvDataInputs : Emit(event_type, data)
    \/ SafeInvoke
    \/ EvQueueGet

SpecEvents == EventsInit /\ [][EventsNext]_vars

\* C23: each emit(event_type, **data) causes every handler subscribed to
\* event_type to be invoked with the emitted data as its keyword arguments:
\* a handler whose parameters are the keys of the data has its body run.
C23_HandlersInvokedWithData ==
    \A i \in DOMAIN evInvoked :
       Accepts(evInvoked[i].handler, evInvoked[i].data) => evInvoked[i].ran

\* C24: a function wrapped with guard(name) raises RuleViolationError without
\* running its body on every call made before register_agent(name), runs its
\* body on every call made after it, and no operation revokes a registration.
C24_GuardFollowsRegistration ==
    [][/\ registeredAgents \subseteq registeredAgents'
       /\ (lawResult' # lawResult /\ lawResult'.op = "guard")
             => (lawResult'.outcome = "body_ran"
                    <=> lawResult'.context \in registeredAgents)]_vars

(***************************************************************************)
(* Specification of octobot.connectors.unreal_bridge.query_unreal          *)
(***************************************************************************)
MaxRetries == 2

\* OCTOBOT_UNREAL_TIMEOUT values, in seconds
UrTimeouts == {1, 5}

\* _MAX_RETRIES and _TIMEOUT, read from the environment when the module loads
UrEnvs == [retries : 0..MaxRetries, timeout : UrTimeouts]

UrPrompts == {<<>>, <<"h", "i">>}

\* what one attempt ends with: the exceptions the loop catches, an exception
\* it does not catch, a response with text, a response without text
UrOutcomes == {"HTTPError", "ValueError", "AttributeError", "text", "empty"}

\* the text of a response of the service
UrResponseText == <<"o", "k">>

\* _fallback(prompt).text: "[offline] {guidance}\nPrompt: {prompt}"
_fallback(prompt) ==
    S_offline \o <<" ", "Chat Unreal is offline; synthesize guidance locally.", "\n",
                   "P", "r", "o", "m", "p", "t", ":", " ">> \o prompt

\* str.startswith
StartsWith(s, prefix) ==
    /\ Len(s) >= Len(prefix)
    /\ SubSeq(s, 1, Len(prefix)) = prefix

AttemptsLeftOffByOne(attempt, retries) == attempt < retries

\* for attempt in range(_MAX_RETRIES + 1): another iteration follows
AttemptsLeft(attempt, retries) == attempt < retries + 1

UrLogLine(st, attempt) == [connector |-> "unreal_bridge", status |-> st, attempt |-> attempt]

\* query_unreal(prompt) up to the loop: the law_enforced("external_request")
\* wrapper and line 37 both call enforce("external_request", file of the module)
QueryUnreal(prompt) ==
    /\ urPc # "loop"
    /\ urPrompt' = prompt
    /\ urAttempt' = 0
    /\ urClients' = <<>>
    /\ urLog' = <<>>
    /\ urResult' = <<>>
    /\ urPc' = IF EnforceReturns("external_request", PathStr(ConnectorFile))
               THEN "loop" ELSE "raised"
    /\ UNCHANGED <<urEnv, lawVars, orchVars, ledgerVars, busVars, evVars, wrVars, sbVars,
                   authVars>>

\* one iteration of the loop, lines 42-72
UrAttempt ==
    /\ urPc = "loop"
    /\ AttemptsLeft(urAttempt, urEnv.retries)
    /\ urClients' = Append(urClients, urEnv.timeout)
    /\ \E outcome \in UrOutcomes :
          CASE outcome \in {"HTTPError", "ValueError"} ->
                  /\ urLog' = Append(urLog, UrLogLine("error", urAttempt))
                  /\ urAttempt' = urAttempt + 1
                  /\ UNCHANGED <<urPc, urResult>>
            [] outcome = "AttributeError" ->
                  /\ urLog' = Append(urLog, UrLogLine("success", urAttempt))
                  /\ urPc' = "raised"
                  /\ UNCHANGED <<urAttempt, urResult>>
            [] outcome = "text" ->
                  /\ urLog' = Append(urLog, UrLogLine("success", urAttempt))
                  /\ urResult' = UrResponseText
                  /\ urPc' = "done"
                  /\ UNCHANGED urAttempt
            [] OTHER ->
                  /\ urLog' = Append(urLog, UrLogLine("success", urAttempt))
                  /\ urResult' = _fallback(urPrompt)
                  /\ urPc' = "done"
                  /\ UNCHANGED urAttempt
    /\ UNCHANGED <<urEnv, urPrompt, lawVars, orchVars, ledgerVars, busVars, evVars, wrVars,
                   sbVars, authVars>>

\* lines 73-75: the range is exhausted and the fallback is returned
UrExhausted ==
    /\ urPc = "loop"
    /\ ~AttemptsLeft(urAttempt, urEnv.retries)
    /\ urResult' = _fallback(urPrompt)
    /\ urPc' = "done"
    /\ UNCHANGED <<urEnv, urPrompt, urAttempt, urClients, urLog, lawVars, orchVars,
                   ledgerVars, busVars, evVars, wrVars, sbVars, authVars>>

UnrealInit ==
    /\ rules \in Catalogs
    /\ registeredAgents = {}
    /\ audit = <<>>
    /\ cwd = RepoRoot
    /\ lawPc = "idle"
    /\ lawCall = NoCall
    /\ lawResult = NoResult
    /\ input = NoInput
    /\ OrchInit
    /\ LedgerUnused
    /\ BusUnused
    /\ evTasks = <<>> /\ evQueue = <<>> /\ evInvoked = <<>>
    /\ urEnv \in UrEnvs
    /\ urPc = "idle"
    /\ urPrompt = <<>>
    /\ urAttempt = 0
    /\ urClients = <<>>
    /\ urLog = <<>>
    /\ urResult = <<>>
    /\ fsFiles = {} /\ wrTodo = <<>> /\ wrResult = "none"
    /\ sbTimeout = 0 /\ sbChild = NoChild /\ sbRuns = <<>>
    /\ authKey = Unset /\ authLog = <<>>

UnrealNext ==
    \/ \E prompt \in UrPrompts : QueryUnreal(prompt)
    \/ UrAttempt
    \/ UrExhausted

\* the loop body is straight-line code of one thread and every request is made
\* with a timeout, so an iteration that can be taken is taken
SpecUnreal ==
    UnrealInit /\ [][UnrealNext]_vars /\ WF_vars(UrAttempt) /\ WF_vars(UrExhausted)

C25_Bounded ==
    /\ Len(urClients) <= urEnv.retries + 1
    /\ \A i \in DOMAIN urClients : urClients[i] = urEnv.timeout
    /\ urPc \in {"loop", "done"} => Len(urLog) = Len(urClients)
    /\ (urPc = "done" /\ \A i \in DOMAIN urLog : urLog[i].status = "error")
          => /\ Len(urClients) = urEnv.retries + 1
             /\ \A i \in DOMAIN urLog : urLog[i].attempt = i - 1
             /\ StartsWith(urResult, S_offline)

allowed_write_paths == {[abs |-> FALSE, parts |-> <<S_proposals>>]}

\* SETTINGS.runtime.proposal_dir
proposal_dir == [abs |-> FALSE, parts |-> <<S_proposals>>]

\* path / other: an absolute right operand replaces the left one
Join(path, other) ==
    IF other.abs THEN other ELSE [abs |-> path.abs, parts |-> path.parts \o other.parts]

VerifyPermissionsLexical(target_path, workdir) ==
    \E p \in allowed_write_paths :
       IsRelativeTo(Join(workdir, target_path), Join(workdir, p))

\* laws.enforcement.verify_agent_permissions: TRUE when it returns, FALSE when
\* it raises LawViolation
verify_agent_permissions(target_path, workdir) ==
    \E p \in allowed_write_paths :
       IsRelativeTo(Resolve(target_path, workdir), Resolve(p, workdir))

\* f"{timestamp}_{agent}" and _make_identifier(topic): the identifier is one
\* path segment unless the agent name or the topic contains "/"
ProposalIds ==
    {[abs |-> FALSE, parts |-> <<S_p1>>],
     [abs |-> FALSE, parts |-> <<S_p1, S_dotdot, S_dotdot, S_etc>>],
     [abs |-> FALSE, parts |-> <<S_p1, S_dotdot, S_dotdot, S_docs, S_link>>]}

\* the keys of the files dict an agent hands to package_proposal
PkgRelatives ==
    {[abs |-> FALSE, parts |-> <<S_x>>],
     [abs |-> FALSE, parts |-> <<S_dotdot, S_x>>],
     [abs |-> FALSE, parts |-> <<S_dotdot, S_dotdot, S_etc, S_x>>],
     [abs |-> FALSE, parts |-> <<S_dotdot, S_dotdot, S_docs, S_link, S_x>>],
     [abs |-> TRUE, parts |-> <<S_etc, S_x>>]}

\* the files dict: one or two entries
PkgFiles ==
    {<<a>> : a \in PkgRelatives} \cup
    {s \in PkgRelatives \X PkgRelatives : s[1] # s[2]}

\* the files generate writes, in order
GenerateFiles == <<S_proposal_yaml, S_rationale_md, S_diff_patch, S_impact_json>>

WriteStep(by, target) == [by |-> by, target |-> target]

FileRecord(by, target, workdir) ==
    [by |-> by, at |-> Resolve(target, workdir).parts, checked |-> PathStr(target)]

\* package_proposal(agent, files), lines 28-33
PackageProposal(id, files) ==
    /\ wrTodo = <<>>
    /\ LET proposal_root == Join(proposal_dir, id)
       IN  wrTodo' = [i \in DOMAIN files |-> WriteStep("package", Join(proposal_root, files[i]))]
    /\ wrResult' = "pending"
    /\ UNCHANGED <<fsFiles, lawVars, orchVars, ledgerVars, busVars, evVars, urVars, sbVars,
                   authVars>>

\* package_proposal, lines 34-39: check the target, then write it
PackageWrite ==
    /\ wrTodo # <<>>
    /\ Head(wrTodo).by = "package"
    /\ LET target == Head(wrTodo).target
       IN  IF verify_agent_permissions(target, cwd)
           THEN /\ fsFiles' = fsFiles \cup {FileRecord("package", target, cwd)}
                /\ wrTodo' = Tail(wrTodo)
                /\ wrResult' = IF Tail(wrTodo) = <<>> THEN "packaged" ELSE wrResult
           ELSE /\ wrTodo' = <<>>
                /\ wrResult' = "LawViolation"
                /\ UNCHANGED fsFiles
    /\ UNCHANGED <<lawVars, orchVars, ledgerVars, busVars, evVars, urVars, sbVars, authVars>>

\* ProposalManager.generate, lines 34-37: the directory is checked and made
Generate(id) ==
    /\ wrTodo = <<>>
    /\ LET dir == Join(proposals_root, id)
       IN  IF EnforceReturns("filesystem_write", PathStr(dir))
           THEN /\ wrTodo' = [i \in DOMAIN GenerateFiles |->
                                WriteStep("generate", Child(dir, GenerateFiles[i]))]
                /\ wrResult' = "pending"
           ELSE /\ wrTodo' = <<>>
                /\ wrResult' = "RuleViolationError"
    /\ UNCHANGED <<fsFiles, lawVars, orchVars, ledgerVars, busVars, evVars, urVars, sbVars,
                   authVars>>

\* ProposalManager.generate, lines 48-68: enforce on the path, then write it
GenerateWrite ==
    /\ wrTodo # <<>>
    /\ Head(wrTodo).by = "generate"
    /\ LET target == Head(wrTodo).target
       IN  IF EnforceReturns("filesystem_write", PathStr(target))
           THEN /\ fsFiles' = fsFiles \cup {FileRecord("generate", target, cwd)}
                /\ wrTodo' = Tail(wrTodo)
                /\ wrResult' = IF Tail(wrTodo) = <<>> THEN "generated" ELSE wrResult
           ELSE /\ wrTodo' = <<>>
                /\ wrResult' = "RuleViolationError"
                /\ UNCHANGED fsFiles
    /\ UNCHANGED <<lawVars, orchVars, ledgerVars, busVars, evVars, urVars, sbVars, authVars>>

WritesInit ==
    /\ rules = RepoRules
    /\ registeredAgents = {}
    /\ audit = <<>>
    /\ cwd \in Cwds
    /\ lawPc = "idle"
    /\ lawCall = NoCall
    /\ lawResult = NoResult
    /\ input = NoInput
    /\ OrchInit
    /\ LedgerUnused
    /\ BusUnused
    /\ SvcUnused

WritesNext ==
    \/ \E id \in ProposalIds, files \in PkgFiles : PackageProposal(id, files)
    \/ PackageWrite
    \/ \E id \in ProposalIds : Generate(id)
    \/ GenerateWrite

SpecWrites == WritesInit /\ [][WritesNext]_vars

\* the roots a write may land under: the configured write paths for
\* package_proposal, the roots of the filesystem_write rule for generate
ClaimedWriteRoots(by) ==
    IF by = "package"
    THEN {CanonicalParts(PathStr(p), cwd) : p \in allowed_write_paths}
    ELSE ClaimedRoots

MaxRuntime == 2

MaxRuns == 2

\* exit codes of the worker when it is left to finish
SbReturnCodes == {0, 1, 2}

\* the exit status of a child killed by SIGKILL
SbKilled == 0 - 9

SimulateContainerNoTimeout(child, timeout) ==
    [kind |-> "CompletedProcess", returncode |-> child.returncode, killed |-> FALSE,
     duration |-> child.duration]

\* simulate_container: subprocess.run(..., check=False, timeout=...) returns a
\* CompletedProcess, or kills the child and raises TimeoutExpired
simulate_container(child, timeout) ==
    IF child.duration > timeout
    THEN [kind |-> "TimeoutExpired", returncode |-> SbKilled, killed |-> TRUE,
          duration |-> child.duration]
    ELSE [kind |-> "CompletedProcess", returncode |-> child.returncode, killed |-> FALSE,
          duration |-> child.duration]

\* run_agent_subprocess: the worker is started; it would run for duration
\* seconds and exit with returncode
RunAgentSubprocess(duration, returncode) ==
    /\ ~sbChild.running
    /\ Len(sbRuns) < MaxRuns
    /\ sbChild' = [running |-> TRUE, duration |-> duration, returncode |-> returncode]
    /\ UNCHANGED <<sbTimeout, sbRuns, lawVars, orchVars, ledgerVars, busVars, evVars,
                   urVars, wrVars, authVars>>

\* subprocess.run ends: the call returns or raises
SimulateContainerEnds ==
    /\ sbChild.running
    /\ sbRuns' = Append(sbRuns, simulate_container(sbChild, sbTimeout))
    /\ sbChild' = NoChild
    /\ UNCHANGED <<sbTimeout, lawVars, orchVars, ledgerVars, busVars, evVars, urVars,
                   wrVars, authVars>>

SandboxInit ==
    /\ OrchInit
    /\ rules = RepoRules
    /\ registeredAgents = {}
    /\ audit = <<>>
    /\ cwd = RepoRoot
    /\ lawPc = "idle"
    /\ lawCall = NoCall
    /\ lawResult = NoResult
    /\ input = NoInput
    /\ LedgerUnused
    /\ BusUnused
    /\ evTasks = <<>> /\ evQueue = <<>> /\ evInvoked = <<>>
    /\ urEnv = NoEnv /\ urPc = "idle" /\ urPrompt = <<>> /\ urAttempt = 0
    /\ urClients = <<>> /\ urLog = <<>> /\ urResult = <<>>
    /\ fsFiles = {} /\ wrTodo = <<>> /\ wrResult = "none"
    /\ sbTimeout \in 1..MaxRuntime
    /\ sbChild = NoChild
    /\ sbRuns = <<>>
    /\ authKey = Unset /\ authLog = <<>>

SandboxNext ==
    \/ \E duration \in 1..(MaxRuntime + 1), returncode \in SbReturnCodes :
          RunAgentSubprocess(duration, returncode)
    \/ SimulateContainerEnds

SpecSandbox == SandboxInit /\ [][SandboxNext]_vars

\* C27: a sandboxed run that exceeds max_runtime_seconds is terminated and
\* never returns a result: run_agent_subprocess raises TimeoutExpired, so no
\* caller can read the run as exit code 0.
C27_TimeoutNeverPasses ==
    \A i \in DOMAIN sbRuns :
       sbRuns[i].duration > sbTimeout
          => /\ sbRuns[i].kind = "TimeoutExpired"
             /\ sbRuns[i].killed
             /\ sbRuns[i].returncode # 0

C27_Witness ==
    /\ Len(sbRuns) = 2
    /\ sbRuns[1].kind = "CompletedProcess" /\ sbRuns[1].returncode = 0
    /\ sbRuns[2].kind = "TimeoutExpired" /\ sbRuns[2].duration > sbTimeout

(***************************************************************************)
(* Specification of the token checks: octobot.security.auth_shared         *)
(* .verify_token and chat_unreal.api.auth.verify_request.  A value that    *)
(* may be None is [set, value].                                            *)
(***************************************************************************)
MaxChecks == 2

Str(v) == [set |-> TRUE, value |-> v]

\* the OCTOBOT_KEY environment variable: unset, empty, or a secret
AuthKeys == {Unset, Str(<<>>), Str(<<"k">>)}

\* the X-API-KEY header of a request: missing, empty, the secret, another value
AuthTokens == {Unset, Str(<<>>), Str(<<"k">>), Str(<<"z">>)}

\* Python truthiness of an Optional[str]
Truthy(v) == v.set /\ v.value # <<>>

\* auth_shared.verify_token: the value returned, or the status of the
\* HTTPException raised
verify_token(key, x_api_key) ==
    IF ~Truthy(key) THEN "500"
    ELSE IF x_api_key # key THEN "401"
    ELSE "accepted"

\* chat_unreal.api.auth.verify_request: True or False
verify_request(key, token) ==
    LET expected == IF Truthy(key) THEN key.value ELSE <<>>
        received == IF Truthy(token) THEN token.value ELSE <<>>
    IN  IF expected = received THEN "accepted" ELSE "401"

AuthRecord(fn, token, outcome) == [fn |-> fn, token |-> token, outcome |-> outcome]

\* a request reaches a FastAPI route that depends on verify_token
VerifyToken(token) ==
    /\ Len(authLog) < MaxChecks
    /\ authLog' = Append(authLog, AuthRecord("verify_token", token,
                                             verify_token(authKey, token)))
    /\ UNCHANGED <<authKey, lawVars, orchVars, ledgerVars, busVars, evVars, urVars, wrVars,
                   sbVars>>

\* a request reaches a Chat Unreal route, which calls verify_request
VerifyRequest(token) ==
    /\ Len(authLog) < MaxChecks
    /\ authLog' = Append(authLog, AuthRecord("verify_request", token,
                                             verify_request(authKey, token)))
    /\ UNCHANGED <<authKey, lawVars, orchVars, ledgerVars, busVars, evVars, urVars, wrVars,
                   sbVars>>

AuthInit ==
    /\ OrchInit
    /\ rules = RepoRules
    /\ registeredAgents = {}
    /\ audit = <<>>
    /\ cwd = RepoRoot
    /\ lawPc = "idle"
    /\ lawCall = NoCall
    /\ lawResult = NoResult
    /\ input = NoInput
    /\ LedgerUnused
    /\ BusUnused
    /\ evTasks = <<>> /\ evQueue = <<>> /\ evInvoked = <<>>
    /\ urEnv = NoEnv /\ urPc = "idle" /\ urPrompt = <<>> /\ urAttempt = 0
    /\ urClients = <<>> /\ urLog = <<>> /\ urResult = <<>>
    /\ fsFiles = {} /\ wrTodo = <<>> /\ wrResult = "none"
    /\ sbTimeout = 0 /\ sbChild = NoChild /\ sbRuns = <<>>
    /\ authKey \in AuthKeys
    /\ authLog = <<>>

AuthNext ==
    \/ \E token \in AuthTokens : VerifyToken(token)
    \/ \E token \in AuthTokens : VerifyRequest(token)

SpecAuth == AuthInit /\ [][AuthNext]_vars

\* C28: every token check fails closed: with OCTOBOT_KEY unset or empty every
\* request is rejected, a missing token included; with the key set a request
\* is accepted iff its token equals the key.
C28_AuthFailsClosed ==
    \A i \in DOMAIN authLog :
       authLog[i].outcome = "accepted"
          <=> /\ Truthy(authKey)
              /\ authLog[i].token = authKey

\* C29: each call of generate creates a proposal whose id differs from the id
\* of every proposal that already exists and leaves the artifacts, the stored
\* status and coverage of all existing proposals unchanged, also when the
\* same topic is proposed twice on the same day.
C29_GenerateIsFresh ==
    [][(pc = "idle" /\ pc' = "draft")
          => \A p \in PIDs :
                status[p] # "none"
                   => /\ status'[p] = status[p]
                      /\ coverage'[p] = coverage[p]
                      /\ artifacts'[p] = artifacts[p]]_vars

\* flush() is one coroutine that is awaited to its end: each of its steps is
\* taken when it can be
SpecBusFair ==
    SpecBus /\ WF_vars(BusGet) /\ WF_vars(BusHandler) /\ WF_vars(BusFlushDone)

\* the number of times flush() has invoked handler for the event
Deliveries(event, handler) ==
    Cardinality({i \in DOMAIN dispatched :
                    dispatched[i] = [event |-> event, handler |-> handler]})

\* C30: flush drains the queue completely: when it returns the queue is empty
\* and every event published so far, those published by handlers during the
\* flush included, has been delivered exactly once to each handler subscribed
\* to its name, also after a handler raised; and flush terminates when the
\* handlers publish finitely many events.
C30_FlushDrains ==
    /\ [][(pc = "flush" /\ pc' = "idle")
             => /\ queue' = <<>>
                /\ \A k \in DOMAIN published :
                      \A n \in DOMAIN BusSubscribers[published[k].name] :
                         Deliveries(published[k], BusSubscribers[published[k].name][n]) = 1]_vars
    /\ [](\A k \in DOMAIN published :
             \A n \in DOMAIN BusSubscribers[published[k].name] :
                Deliveries(published[k], BusSubscribers[published[k].name][n]) <= 1)
    /\ (pc = "flush") ~> (pc = "idle")

C30_Witness ==
    /\ pc = "idle"
    /\ queue = <<>>
    /\ orchLog.action = "handler_error"
    /\ Len(published) = 3
    /\ published[1].name = "proposal.created"
    /\ published[2].name = "proposal.created"
    /\ published[3].name = "proposal.validated"
    /\ Len(dispatched) = 5
    /\ dispatched[3].event = published[2]

====
